---- MODULE Spec2Model ----
(***************************************************************************)
(* Model of src/validate.ts (djwt): validateJwt and the functions it      *)
(* composes -- parseAndDecode, validateJwtObject, handleJwtObject,        *)
(* checkHeaderCrit, validateAlgorithm -- plus the collaborators it calls  *)
(* (makeJwt, the base64url codec, the hex encoder).                        *)
(***************************************************************************)
EXTENDS Integers, Sequences, FiniteSets, TLC

(***************************************************************************)
(* Bounds of the model.                                                    *)
(***************************************************************************)
MaxCrit == 2          \* longest 'crit' list
MaxKey == 2           \* keys are 1..MaxKey
MaxNowSec == 2        \* the clock and 'exp' range over 0..MaxNowSec seconds
TicksPerSecond == 2   \* resolution of the clock: ticks per second

(***************************************************************************)
(* JSON values.  Every value is a record of the same shape so that values  *)
(* of different JSON types can be compared.                                *)
(***************************************************************************)
Absent == [t |-> "absent", s |-> "", n |-> 0, a |-> <<>>]
Str(x) == [t |-> "string", s |-> x, n |-> 0, a |-> <<>>]
Num(x) == [t |-> "number", s |-> "", n |-> x, a |-> <<>>]
Arr(l) == [t |-> "array", s |-> "", n |-> 0, a |-> l]
AStr(x) == [t |-> "string", s |-> x, n |-> 0]
ANum(x) == [t |-> "number", s |-> "", n |-> x]

Keys == {"alg", "crit", "x-custom", "x-other", "toString", "exp"}

\* A top-level JSON value: an object with own properties, or a non-object.
Obj(f) == [kind |-> "object",
           props |-> [k \in Keys |-> IF k \in DOMAIN f THEN f[k] ELSE Absent]]
NonObj(kind) == [kind |-> kind, props |-> [k \in Keys |-> Absent]]
NoJson == NonObj("none")

\* Properties every object inherits from Object.prototype, and the ones
\* among them that are functions.
ObjectPrototypeFunctions == {"toString", "constructor"}

HasOwn(x, key) == key \in Keys /\ x.props[key].t # "absent"

\* typeof x[key] for an object x produced by JSON.parse
TypeofProp(x, key) ==
  IF HasOwn(x, key)
  THEN (IF x.props[key].t \in {"string", "number"} THEN x.props[key].t ELSE "object")
  ELSE IF key \in ObjectPrototypeFunctions THEN "function" ELSE "undefined"

isObject(obj) == obj.kind = "object"

hasProperty(key, x) == HasOwn(x, key) \/ key \in ObjectPrototypeFunctions

(***************************************************************************)
(* Thrown values.  'nullish' is a thrown null/undefined, on which reading  *)
(* .message itself throws; 'hasMessage' tells an Error from e.g. a thrown  *)
(* string.                                                                 *)
(***************************************************************************)
Err(m) == [nullish |-> FALSE, hasMessage |-> TRUE, message |-> m]
ThrownNull == [nullish |-> TRUE, hasMessage |-> FALSE, message |-> ""]
ThrownString == [nullish |-> FALSE, hasMessage |-> FALSE, message |-> ""]
NoErr == [nullish |-> FALSE, hasMessage |-> FALSE, message |-> "none"]

ExpiredMessage == "the jwt is expired"

(***************************************************************************)
(* Wire segments of header and payload.  A segment is the base64url text   *)
(* of a JSON text; 'enc' tells which text of the value it carries: the     *)
(* JSON.stringify output ("canon"), another JSON text of the same value    *)
(* ("ws", e.g. with insignificant whitespace), a text that is not JSON     *)
(* ("badjson"), or characters that are not base64url ("badb64").           *)
(***************************************************************************)
Seg(enc, val) == [enc |-> enc, val |-> val]

\* JSON.stringify followed by base64url encoding (makeSigningInput)
EncodeJson(val) == Seg("canon", val)

\* base64url decoding followed by JSON.parse (parseAndDecode, index 0 and 1)
DecodeJsonError(seg) ==
  IF seg.enc = "badb64" THEN Err("Illegal base64url string!")
  ELSE IF seg.enc = "badjson" THEN Err("Unexpected token in JSON")
  ELSE NoErr
DecodeJson(seg) == seg.val

(***************************************************************************)
(* base64url at the level of characters, for the signature segment.        *)
(***************************************************************************)
\* the 6-bit value of an ASCII character, -1 if it is none of the alphabet
B64Code(c) ==
  IF c >= 65 /\ c <= 90 THEN c - 65
  ELSE IF c >= 97 /\ c <= 122 THEN c - 71
  ELSE IF c >= 48 /\ c <= 57 THEN c + 4
  ELSE IF c = 45 \/ c = 43 THEN 62
  ELSE IF c = 95 \/ c = 47 THEN 63
  ELSE -1

\* the base64url character of a 6-bit value
B64Char(v) ==
  IF v < 26 THEN v + 65
  ELSE IF v < 52 THEN v + 71
  ELSE IF v < 62 THEN v - 4
  ELSE IF v = 62 THEN 45 ELSE 95

RECURSIVE Pow2(_)
Pow2(k) == IF k = 0 THEN 1 ELSE 2 * Pow2(k - 1)

RECURSIVE SextetsValue(_)
SextetsValue(cs) ==
  IF cs = <<>> THEN 0
  ELSE SextetsValue(SubSeq(cs, 1, Len(cs) - 1)) * 64 + B64Code(cs[Len(cs)])

\* big-endian bytes of v, nb of them
RECURSIVE BytesOf(_, _)
BytesOf(v, nb) ==
  IF nb = 0 THEN <<>> ELSE Append(BytesOf(v \div 256, nb - 1), v % 256)

RECURSIVE BytesValue(_)
BytesValue(bs) ==
  IF bs = <<>> THEN 0
  ELSE BytesValue(SubSeq(bs, 1, Len(bs) - 1)) * 256 + bs[Len(bs)]

RECURSIVE CharsOf(_, _)
CharsOf(v, nc) ==
  IF nc = 0 THEN <<>> ELSE Append(CharsOf(v \div 64, nc - 1), B64Char(v % 64))

\* convertBase64urlToUint8Array fails on a length of 1 mod 4 and on a
\* character outside the alphabet
B64DecodeFails(cs) ==
  \/ Len(cs) % 4 = 1
  \/ \E i \in 1..Len(cs) : B64Code(cs[i]) = -1

\* convertBase64urlToUint8Array: the bits of the characters, in whole bytes;
\* the bits left over after the last whole byte are dropped unread
convertBase64urlToUint8Array(cs) ==
  LET nb == (6 * Len(cs)) \div 8
      drop == 6 * Len(cs) - 8 * nb
  IN BytesOf(SextetsValue(cs) \div Pow2(drop), nb)

\* convertUint8ArrayToBase64url: unpadded, the left-over bits set to zero
convertUint8ArrayToBase64url(bs) ==
  LET nc == (8 * Len(bs) + 5) \div 6
      fill == 6 * nc - 8 * Len(bs)
  IN CharsOf(BytesValue(bs) * Pow2(fill), nc)

\* hex encoding: two digits (0..15) per byte
RECURSIVE convertUint8ArrayToHex(_)
convertUint8ArrayToHex(bs) ==
  IF bs = <<>> THEN <<>>
  ELSE <<bs[1] \div 16, bs[1] % 16>> \o convertUint8ArrayToHex(Tail(bs))

(***************************************************************************)
(* The signer (makeJwt of ./create.ts) and its signing primitive.          *)
(***************************************************************************)
KeyOrder == <<"alg", "crit", "x-custom", "x-other", "toString", "exp">>

StrCode(x) ==
  CASE x = "HS256" -> 1 [] x = "HS512" -> 2 [] x = "none" -> 3
    [] x = "hs256" -> 4 [] x = "XS1" -> 5 [] x = "x-custom" -> 6
    [] x = "x-other" -> 7 [] x = "toString" -> 8 [] x = "alg" -> 9
    [] x = "" -> 10 [] OTHER -> 11

RECURSIVE AtomsCode(_)
AtomsCode(l) ==
  IF l = <<>> THEN 0
  ELSE 13 * AtomsCode(Tail(l)) + StrCode(l[1].s) + 3 * l[1].n + 1

ValCode(v) ==
  CASE v.t = "absent" -> 0
    [] v.t = "string" -> 20 + StrCode(v.s)
    [] v.t = "number" -> 40 + v.n
    [] v.t = "array" -> 60 + AtomsCode(v.a)
    [] OTHER -> 19

RECURSIVE PropsCode(_, _)
PropsCode(x, i) ==
  IF i = 0 THEN 0 ELSE 7 * PropsCode(x, i - 1) + ValCode(x.props[KeyOrder[i]])

\* a number standing for the bytes of a wire segment
SegCode(seg) ==
  4 * (PropsCode(seg.val, Len(KeyOrder)) + (IF isObject(seg.val) THEN 0 ELSE 5))
  + (CASE seg.enc = "canon" -> 0 [] seg.enc = "ws" -> 1 [] OTHER -> 2)

SupportedAlgs == {"none", "HS256", "HS512"}

\* length in bytes of the signature of an algorithm
SigBytes(alg) == CASE alg = "HS256" -> 1 [] alg = "HS512" -> 2 [] OTHER -> 0

\* encrypt: a deterministic keyed digest of the signing input
encrypt(alg, key, hseg, pseg) ==
  BytesOf((31 * SegCode(hseg) + 17 * SegCode(pseg) + 101 * key + 59 * SigBytes(alg))
            % Pow2(8 * SigBytes(alg)),
          SigBytes(alg))

\* makeSignature: the signature as it goes on the wire
makeSignature(alg, key, hseg, pseg) ==
  convertUint8ArrayToBase64url(encrypt(alg, key, hseg, pseg))

\* makeJwt throws for an algorithm it has no primitive for
makeJwtError(header, payload, key) ==
  IF header.props["alg"].t = "string" /\ header.props["alg"].s \in SupportedAlgs
  THEN NoErr
  ELSE Err("Failed to create JWT: no matching crypto algorithm in the header")

Jwt(n, h, p, s) == [nseg |-> n, h |-> h, p |-> p, s |-> s]

makeJwt(header, payload, key) ==
  Jwt(3, EncodeJson(header), EncodeJson(payload),
      makeSignature(header.props["alg"].s, key, EncodeJson(header), EncodeJson(payload)))

(***************************************************************************)
(* src/validate.ts                                                         *)
(***************************************************************************)
JwtObject(h, p, s) == [header |-> h, payload |-> p, signature |-> s]
NoJwtObject == JwtObject(NoJson, NoJson, <<>>)

\* parseAndDecode: what it throws (NoErr if nothing)
parseAndDecodeError(jwt) ==
  IF jwt.h.enc = "badb64" THEN DecodeJsonError(jwt.h)
  ELSE IF jwt.p.enc = "badb64" THEN DecodeJsonError(jwt.p)
  ELSE IF jwt.nseg >= 3 /\ B64DecodeFails(jwt.s) THEN Err("Illegal base64url string!")
  ELSE IF jwt.h.enc = "badjson" THEN DecodeJsonError(jwt.h)
  ELSE IF jwt.p.enc = "badjson" THEN DecodeJsonError(jwt.p)
  ELSE IF jwt.nseg # 3 THEN Err("invalid serialization")
  ELSE NoErr

\* parseAndDecode: what it returns
parseAndDecode(jwt) ==
  JwtObject(DecodeJson(jwt.h), DecodeJson(jwt.p),
            convertUint8ArrayToHex(convertBase64urlToUint8Array(jwt.s)))

isExpiredInclusive(exp, leeway, now) == exp + leeway * TicksPerSecond <= now

isExpired(exp, leeway, now) == exp + leeway * TicksPerSecond < now

\* validateJwtObject: what it throws (NoErr if nothing); it returns its
\* argument.  The signature parseAndDecode hands over is always a (hex)
\* string, so the first check never throws.
validateJwtObjectError(maybeJwtObject, now) ==
  IF ~(/\ isObject(maybeJwtObject.header)
       /\ hasProperty("alg", maybeJwtObject.header)
       /\ TypeofProp(maybeJwtObject.header, "alg") = "string")
  THEN Err("header parameter 'alg' is not a string")
  ELSE IF isObject(maybeJwtObject.payload) /\ hasProperty("exp", maybeJwtObject.payload)
  THEN (IF TypeofProp(maybeJwtObject.payload, "exp") # "number"
        THEN Err("claim 'exp' is not a number")
        ELSE IF isExpired(maybeJwtObject.payload.props["exp"].n, 1, now)
        THEN Err(ExpiredMessage)
        ELSE NoErr)
  ELSE NoErr

reservedWords ==
  {"alg", "jku", "jwk", "kid", "x5u", "x5c", "x5t", "x5t#S256", "typ", "cty",
   "crit", "enc", "zip", "epk", "apu", "apv", "iv", "tag", "p2s", "p2c"}

\* The handler table: absent, or an object whose own properties are
\* functions ("function") or something else ("number").
HandlerNames == {"x-custom", "x-other", "alg"}
Handlers(present, fns) == [present |-> present, fns |-> fns]
NoHandlers == Handlers(FALSE, [k \in HandlerNames |-> "absent"])
Registered(handlers, str) ==
  handlers.present /\ str \in HandlerNames /\ handlers.fns[str] = "function"

\* typeof handlers?.[str]
TypeofHandler(handlers, str) ==
  IF ~handlers.present THEN "undefined"
  ELSE IF str \in HandlerNames /\ handlers.fns[str] # "absent" THEN handlers.fns[str]
  ELSE IF str \in ObjectPrototypeFunctions THEN "function"
  ELSE "undefined"

CritOf(header) == header.props["crit"]

\* the third check of checkHeaderCrit, for one entry
NotUnderstood(header, handlers, str) ==
  \/ TypeofProp(header, str) = "undefined"
  \/ TypeofHandler(handlers, str) # "function"

\* checkHeaderCrit: what its checks throw (NoErr if nothing)
checkHeaderCritError(header, handlers) ==
  LET crit == CritOf(header) IN
  IF \/ crit.t # "array"
     \/ \E i \in 1..Len(crit.a) : crit.a[i].t # "string" \/ crit.a[i].s = ""
  THEN Err("header parameter 'crit' must be an array of non-empty strings")
  ELSE IF \E i \in 1..Len(crit.a) : crit.a[i].s \in reservedWords
  THEN Err("the 'crit' list contains a non-extension header parameter")
  ELSE IF \E i \in 1..Len(crit.a) : NotUnderstood(header, handlers, crit.a[i].s)
  THEN Err("critical extension header parameters are not understood")
  ELSE NoErr

\* the allow-list: one algorithm or an array of them
OneAlg(a) == [isArray |-> FALSE, single |-> a, list |-> <<>>]
AlgList(l) == [isArray |-> TRUE, single |-> "", list |-> l]

validateAlgorithmAnyArray(algorithm, jwtAlg) ==
  algorithm.isArray \/ algorithm.single = jwtAlg

validateAlgorithmArrayOnly(algorithm, jwtAlg) ==
  algorithm.isArray /\ \E i \in 1..Len(algorithm.list) : algorithm.list[i] = jwtAlg

validateAlgorithm(algorithm, jwtAlg) ==
  \/ algorithm.isArray /\ \E i \in 1..Len(algorithm.list) : algorithm.list[i] = jwtAlg
  \/ ~algorithm.isArray /\ algorithm.single = jwtAlg

(***************************************************************************)
(* The inputs the calls are made with.                                     *)
(***************************************************************************)
Times == 0..(MaxNowSec * TicksPerSecond)
Late == MaxNowSec * TicksPerSecond
SignKeys == 1..MaxKey

HAlg(a) == Obj([alg |-> Str(a)])
AlgNames == {"HS256", "HS512", "none", "hs256", "XS1"}
GoodHeaders == {HAlg(a) : a \in AlgNames}
BadHeaders == {Obj(<<>>), Obj([alg |-> Num(1)]), NonObj("array"), NonObj("null")}

CritAtoms ==
  {AStr("x-custom"), AStr("x-other"), AStr("toString"), AStr("alg"), AStr(""), ANum(1)}
CritLists == UNION {[1..n -> CritAtoms] : n \in 0..MaxCrit}
CritValues == {Arr(l) : l \in CritLists} \cup {Str("x-custom")}
Extensions ==
  {<<>>, "x-custom" :> Num(1), ("x-custom" :> Num(1)) @@ ("x-other" :> Str("none"))}
CritHeaders ==
  {Obj([alg |-> Str("HS256"), crit |-> c] @@ e) : c \in CritValues, e \in Extensions}

NoExp == Obj(<<>>)
PExp(e) == Obj([exp |-> Num(e)])
Payloads == {NoExp, NonObj("number"), Obj([exp |-> Str("none")])} \cup {PExp(e) : e \in Times}

HandlerTables ==
  {NoHandlers,
   Handlers(TRUE, [k \in HandlerNames |-> "absent"]),
   Handlers(TRUE, [k \in HandlerNames |-> IF k = "x-custom" THEN "function" ELSE "absent"]),
   Handlers(TRUE, [k \in HandlerNames |-> IF k = "x-custom" THEN "number" ELSE "function"]),
   Handlers(TRUE, [k \in HandlerNames |-> "function"])}
AllHandlers == Handlers(TRUE, [k \in HandlerNames |-> "function"])

AllowLists ==
  {OneAlg(a) : a \in AlgNames}
  \cup {AlgList(l) : l \in UNION {[1..n -> {"HS256", "HS512"}] : n \in 0..2}}

\* one bit of an ASCII character flipped
FlipBit(c, k) == IF (c \div Pow2(k)) % 2 = 1 THEN c - Pow2(k) ELSE c + Pow2(k)
Flips(sig) == {<<0, 0>>} \cup ((1..Len(sig)) \X (0..7))
Flipped(sig, f) == IF f[1] = 0 THEN sig ELSE [sig EXCEPT ![f[1]] = FlipBit(@, f[2])]

\* the signature segment a signer holding key k puts under the segments
SigOver(hseg, pseg, k) ==
  IF hseg.val.props["alg"].t = "string"
  THEN makeSignature(hseg.val.props["alg"].s, k, hseg, pseg)
  ELSE <<>>

Request(jwt, key, algorithm, critHandlers) ==
  [jwt |-> jwt, key |-> key, algorithm |-> algorithm, critHandlers |-> critHandlers]

Scenario(r, now, from, flip) ==
  [req |-> r, now |-> now, from |-> from, flip |-> flip]

\* a token as the signer makes it
Signed(h, p, k) == Jwt(3, EncodeJson(h), EncodeJson(p), SigOver(EncodeJson(h), EncodeJson(p), k))
Plain(jwt, key, algorithm, critHandlers, now) ==
  Scenario(Request(jwt, key, algorithm, critHandlers), now, jwt.s, <<0, 0>>)

\* tokens with a 'crit' header, against every handler table
CritScenarios ==
  {Plain(Signed(h, NoExp, 1), 1, OneAlg("HS256"), t, Late) :
     h \in CritHeaders, t \in HandlerTables}

\* 'crit' together with expiry, the algorithm gate and a wrong key
CrossHeaders ==
  {Obj([alg |-> Str("HS256"), crit |-> Arr(l)]
       @@ ("x-custom" :> Num(1)) @@ ("x-other" :> Str("none"))) :
     l \in {<<AStr("x-custom")>>, <<AStr("x-custom"), AStr("x-other")>>,
            <<AStr("toString")>>}}
CrossScenarios ==
  {Plain(Signed(h, p, k), 1, a, t, Late) :
     h \in CrossHeaders, p \in {NoExp, PExp(0)}, k \in SignKeys,
     a \in {OneAlg("HS256"), OneAlg("HS512"), AlgList(<<"HS512", "HS256">>)},
     t \in {AllHandlers, Handlers(TRUE, [n \in HandlerNames |-> "absent"])}}

\* every wire form of the three segments
WireSegs(vals) ==
  {Seg(e, v) : e \in {"canon", "ws"}, v \in vals}
  \cup {Seg("badjson", NoJson), Seg("badb64", NoJson)}
WireScenarios ==
  {Plain(Jwt(n, h, p, SigOver(h, p, 1)), 1, OneAlg("HS256"), NoHandlers, 0) :
     n \in 2..4, h \in WireSegs(GoodHeaders \cup BadHeaders),
     p \in WireSegs({NoExp, NonObj("number")})}

\* signatures: by either key, over the signer's segments or the presented
\* ones, with one bit of the wire segment flipped or none
SigScenarios ==
  UNION {
    LET h == Seg(e, HAlg(a))
        p == Seg(e, NoExp)
        sigs == {SigOver(h, p, k), SigOver(EncodeJson(h.val), EncodeJson(p.val), k)}
    IN UNION {{Scenario(Request(Jwt(3, h, p, Flipped(s, f)), 1, OneAlg(a), NoHandlers),
                        0, s, f) : f \in Flips(s)} : s \in sigs}
    : e \in {"canon", "ws"}, a \in SupportedAlgs, k \in SignKeys}

\* the algorithm gate: every declared alg against every allow-list
AlgScenarios ==
  {Plain(Signed(h, p, k), 1, a, NoHandlers, Late) :
     h \in GoodHeaders \cup BadHeaders, p \in {NoExp, PExp(0), PExp(Late)},
     k \in SignKeys, a \in AllowLists}

\* expiry: every exp against every reading of the clock
ExpScenarios ==
  {Plain(Signed(HAlg("HS256"), p, 1), 1, a, NoHandlers, now) :
     p \in Payloads, now \in Times, a \in {OneAlg("HS256"), OneAlg("HS512")}}

Scenarios ==
  CritScenarios \cup CrossScenarios \cup WireScenarios \cup SigScenarios
  \cup AlgScenarios \cup ExpScenarios

(***************************************************************************)
(* One call of validateJwt as a state machine.                             *)
(***************************************************************************)
VARIABLES
  req,        \* the Validation argument: jwt, key, algorithm, critHandlers
  clock,      \* Date.now(), in ticks
  tamper,     \* where the presented signature segment comes from
  pc,         \* the step validateJwt is at
  jwtObject,  \* oldJwtObject, once decoded
  hs,         \* per 'crit' entry: the state of its handler's invocation
  rejErr,     \* the value of the first handler promise that rejected
  started,    \* the steps begun so far, in order
  passed,     \* the steps that succeeded
  fresh,      \* the token makeJwt returned
  failed,     \* the step whose failure reached the catch clause
  result      \* what the call completed with

vars == <<req, clock, tamper, pc, jwtObject, hs, rejErr, started, passed,
          fresh, failed, result>>

NoResult ==
  [tag |-> "none", isExpired |-> FALSE, message |-> "", header |-> NoJson,
   payload |-> NoJson, signature |-> <<>>, hasCritResult |-> FALSE,
   critResult |-> <<>>]

\* the catch clause of validateJwt: reading err.message of a thrown
\* null/undefined throws inside the clause, so the promise rejects
CatchClause(err) ==
  IF err.nullish
  THEN [NoResult EXCEPT !.tag = "rejected",
                        !.message = "Cannot read property 'message' of null"]
  ELSE [NoResult EXCEPT !.tag = "invalid",
                        !.message = err.message,
                        !.isExpired = (err.hasMessage /\ err.message = ExpiredMessage)]

\* the return statement of the try block
ValidResult(obj, hasCrit, critResult) ==
  [tag |-> "valid", isExpired |-> FALSE, message |-> "", header |-> obj.header,
   payload |-> obj.payload, signature |-> obj.signature,
   hasCritResult |-> hasCrit, critResult |-> critResult]

\* the order of the steps in the try block
ContinuationSignFirst(step) ==
  CASE step = "decode" -> "validate"
    [] step = "validate" -> "crit"
    [] step = "crit" -> "sign"
    [] step = "sign" -> "gate"
    [] step = "gate" -> "return"

Continuation(step) ==
  CASE step = "decode" -> "validate"
    [] step = "validate" -> "crit"
    [] step = "crit" -> "gate"
    [] step = "gate" -> "sign"
    [] step = "sign" -> "return"

\* a step threw: control goes to the catch clause
Throw(step, err) ==
  /\ failed' = step
  /\ result' = CatchClause(err)
  /\ pc' = "done"

\* a step succeeded: the next one starts, or the call returns Valid
Proceed(step) ==
  /\ passed' = passed \cup {step}
  /\ failed' = failed
  /\ IF Continuation(step) = "return"
     THEN /\ pc' = "done"
          /\ result' = ValidResult(jwtObject, hasProperty("crit", jwtObject.header),
                                   [i \in 1..Len(hs) |-> CritOf(jwtObject.header).a[i].s])
     ELSE /\ pc' = Continuation(step)
          /\ result' = result

\* parseAndDecode(jwt)
Decode ==
  /\ pc = "decode"
  /\ started' = Append(started, "decode")
  /\ IF parseAndDecodeError(req.jwt) # NoErr
     THEN /\ Throw("decode", parseAndDecodeError(req.jwt))
          /\ UNCHANGED <<jwtObject, passed>>
     ELSE /\ jwtObject' = parseAndDecode(req.jwt)
          /\ passed' = passed \cup {"decode"}
          /\ pc' = Continuation("decode")
          /\ UNCHANGED <<failed, result>>
  /\ UNCHANGED <<req, clock, tamper, hs, rejErr, fresh>>

\* validateJwtObject(...)
Validate ==
  /\ pc = "validate"
  /\ started' = Append(started, "validate")
  /\ IF validateJwtObjectError(jwtObject, clock) # NoErr
     THEN Throw("validate", validateJwtObjectError(jwtObject, clock)) /\ UNCHANGED passed
     ELSE Proceed("validate")
  /\ UNCHANGED <<req, clock, tamper, jwtObject, hs, rejErr, fresh>>

\* handleJwtObject up to the checks of checkHeaderCrit
CritChecks ==
  /\ pc = "crit"
  /\ started' = Append(started, "crit")
  /\ IF ~hasProperty("crit", jwtObject.header)
     THEN Proceed("crit") /\ hs' = hs
     ELSE IF checkHeaderCritError(jwtObject.header, req.critHandlers) # NoErr
     THEN /\ Throw("crit", checkHeaderCritError(jwtObject.header, req.critHandlers))
          /\ UNCHANGED <<passed, hs>>
     ELSE /\ hs' = [i \in 1..Len(CritOf(jwtObject.header).a) |-> "idle"]
          /\ pc' = IF Len(CritOf(jwtObject.header).a) = 0 THEN "await" ELSE "invoke"
          /\ UNCHANGED <<passed, failed, result>>
  /\ UNCHANGED <<req, clock, tamper, jwtObject, rejErr, fresh>>

HandlerFailures == {Err("handler failed"), Err(ExpiredMessage), ThrownNull, ThrownString}

\* header.crit.map(...): the next handler is called; it throws, returns a
\* value, or returns a promise.  An inherited function returns a value.
InvokeHandler ==
  /\ pc = "invoke"
  /\ \E i \in 1..Len(hs) :
       /\ hs[i] = "idle"
       /\ \A j \in 1..(i - 1) : hs[j] # "idle"
       /\ \/ /\ hs' = [hs EXCEPT ![i] = "fulfilled"]
             /\ pc' = IF i = Len(hs) THEN "await" ELSE "invoke"
             /\ UNCHANGED <<failed, result>>
          \/ /\ Registered(req.critHandlers, CritOf(jwtObject.header).a[i].s)
             /\ hs' = [hs EXCEPT ![i] = "pending"]
             /\ pc' = IF i = Len(hs) THEN "await" ELSE "invoke"
             /\ UNCHANGED <<failed, result>>
          \/ /\ Registered(req.critHandlers, CritOf(jwtObject.header).a[i].s)
             /\ hs' = [hs EXCEPT ![i] = "threw"]
             /\ \E err \in HandlerFailures : Throw("crit", err)
  /\ UNCHANGED <<req, clock, tamper, jwtObject, rejErr, started, passed, fresh>>

\* a handler's promise fulfils
HandlerFulfil ==
  /\ pc # "invoke"
  /\ \E i \in 1..Len(hs) :
       /\ hs[i] = "pending"
       /\ hs' = [hs EXCEPT ![i] = "fulfilled"]
  /\ UNCHANGED <<req, clock, tamper, pc, jwtObject, rejErr, started, passed,
                 fresh, failed, result>>

\* a handler's promise rejects
HandlerReject ==
  /\ pc # "invoke"
  /\ \E i \in 1..Len(hs) :
       /\ hs[i] = "pending"
       /\ hs' = [hs EXCEPT ![i] = "rejected"]
  /\ \E err \in HandlerFailures :
       rejErr' = IF rejErr = NoErr THEN err ELSE rejErr
  /\ UNCHANGED <<req, clock, tamper, pc, jwtObject, started, passed,
                 fresh, failed, result>>

\* Promise.all fulfils
AllFulfilledSome(states) == \E i \in 1..Len(states) : states[i] = "fulfilled"

AllFulfilled(states) == \A i \in 1..Len(states) : states[i] = "fulfilled"

\* Promise.all rejects
AnyRejected(states) == \E i \in 1..Len(states) : states[i] = "rejected"

\* await checkHeaderCrit(...) returns
DispatchResolve ==
  /\ pc = "await"
  /\ ~AnyRejected(hs)
  /\ AllFulfilled(hs)
  /\ Proceed("crit")
  /\ UNCHANGED <<req, clock, tamper, jwtObject, hs, rejErr, started, fresh>>

\* await checkHeaderCrit(...) throws
DispatchReject ==
  /\ pc = "await"
  /\ AnyRejected(hs)
  /\ Throw("crit", rejErr)
  /\ UNCHANGED <<req, clock, tamper, jwtObject, hs, rejErr, started, passed, fresh>>

\* validateAlgorithm(algorithm, oldJwtObject.header.alg)
Gate ==
  /\ pc = "gate"
  /\ started' = Append(started, "gate")
  /\ IF ~validateAlgorithm(req.algorithm, jwtObject.header.props["alg"].s)
     THEN Throw("gate", Err("no matching algorithm")) /\ UNCHANGED passed
     ELSE Proceed("gate")
  /\ UNCHANGED <<req, clock, tamper, jwtObject, hs, rejErr, fresh>>

\* await makeJwt({ ...oldJwtObject, key })
Sign ==
  /\ pc = "sign"
  /\ started' = Append(started, "sign")
  /\ IF makeJwtError(jwtObject.header, jwtObject.payload, req.key) # NoErr
     THEN /\ Throw("sign", makeJwtError(jwtObject.header, jwtObject.payload, req.key))
          /\ fresh' = fresh
     ELSE /\ fresh' = makeJwt(jwtObject.header, jwtObject.payload, req.key)
          /\ pc' = "compare"
          /\ UNCHANGED <<failed, result>>
  /\ UNCHANGED <<req, clock, tamper, jwtObject, hs, rejErr, passed>>

\* oldJwtObject.signature !== parseAndDecode(...).signature
SignaturesDifferNever(old, new) == FALSE

SignaturesDiffer(old, new) == old # new

Compare ==
  /\ pc = "compare"
  /\ IF SignaturesDiffer(jwtObject.signature, parseAndDecode(fresh).signature)
     THEN Throw("sign", Err("signatures don't match")) /\ UNCHANGED passed
     ELSE Proceed("sign")
  /\ UNCHANGED <<req, clock, tamper, jwtObject, hs, rejErr, started, fresh>>

Next ==
  \/ Decode
  \/ Validate
  \/ CritChecks
  \/ InvokeHandler
  \/ HandlerFulfil
  \/ HandlerReject
  \/ DispatchResolve
  \/ DispatchReject
  \/ Gate
  \/ Sign
  \/ Compare

Init ==
  /\ \E sc \in Scenarios :
       /\ req = sc.req
       /\ clock = sc.now
       /\ tamper = [from |-> sc.from, flip |-> sc.flip]
  /\ pc = "decode"
  /\ jwtObject = NoJwtObject
  /\ hs = <<>>
  /\ rejErr = NoErr
  /\ started = <<>>
  /\ passed = {}
  /\ fresh = Jwt(0, Seg("canon", NoJson), Seg("canon", NoJson), <<>>)
  /\ failed = "none"
  /\ result = NoResult

Spec == Init /\ [][Next]_vars

(***************************************************************************)
(* Properties.                                                             *)
(***************************************************************************)
Done == pc = "done"
Started(step) == \E i \in 1..Len(started) : started[i] = step
Invoked(i) == hs[i] # "idle"
NumericExp(p) == isObject(p) /\ HasOwn(p, "exp") /\ p.props["exp"].t = "number"
ExpOf(p) == p.props["exp"].n
DeclaredAlg == jwtObject.header.props["alg"].s
Allowed(algorithm, alg) ==
  alg \in (IF algorithm.isArray
           THEN {algorithm.list[i] : i \in 1..Len(algorithm.list)}
           ELSE {algorithm.single})

\* the request's token is what the signer makes of its own header and
\* payload under the request's key, and the allow-list is the header's alg
SignerMade ==
  /\ isObject(req.jwt.h.val)
  /\ req.jwt.h.val.props["alg"].t = "string"
  /\ req.jwt.h.val.props["alg"].s \in SupportedAlgs
  /\ req.jwt = makeJwt(req.jwt.h.val, req.jwt.p.val, req.key)
FutureOrNoExp(p) ==
  \/ ~isObject(p)
  \/ ~HasOwn(p, "exp")
  \/ NumericExp(p) /\ ExpOf(p) > clock
RoundTripCase ==
  /\ SignerMade
  /\ req.algorithm = OneAlg(req.jwt.h.val.props["alg"].s)
  /\ FutureOrNoExp(req.jwt.p.val)
RoundTripHolds ==
  /\ result.tag = "valid"
  /\ result.header = req.jwt.h.val
  /\ result.payload = req.jwt.p.val

\* the crit list passes the shape and reserved-word checks
CritWellFormed(header) ==
  /\ HasOwn(header, "crit")
  /\ CritOf(header).t = "array"
  /\ \A i \in 1..Len(CritOf(header).a) :
       /\ CritOf(header).a[i].t = "string"
       /\ CritOf(header).a[i].s # ""
       /\ CritOf(header).a[i].s \notin reservedWords

\* some entry is no own key of the header or has no registered callable
SomeEntryUnknown(header, handlers) ==
  \E i \in 1..Len(CritOf(header).a) :
    \/ ~HasOwn(header, CritOf(header).a[i].s)
    \/ ~Registered(handlers, CritOf(header).a[i].s)

\* validateJwt accepts the token, given that every handler succeeds
WouldAccept(jwt) ==
  /\ parseAndDecodeError(jwt) = NoErr
  /\ validateJwtObjectError(parseAndDecode(jwt), clock) = NoErr
  /\ \/ ~hasProperty("crit", parseAndDecode(jwt).header)
     \/ checkHeaderCritError(parseAndDecode(jwt).header, req.critHandlers) = NoErr
  /\ Allowed(req.algorithm, parseAndDecode(jwt).header.props["alg"].s)
  /\ makeJwtError(parseAndDecode(jwt).header, parseAndDecode(jwt).payload, req.key) = NoErr
  /\ parseAndDecode(jwt).signature
       = parseAndDecode(makeJwt(parseAndDecode(jwt).header,
                                parseAndDecode(jwt).payload, req.key)).signature

\* the steps of validateJwt, in the order of the try block
StepOrder == <<"decode", "validate", "crit", "gate", "sign">>

\* the bytes of the presented signature segment
PresentedSignature == convertBase64urlToUint8Array(req.jwt.s)

\* C1: validateJwt never completes with a rejected promise, whatever fails.
C1_NeverEscapes == result.tag # "rejected"

\* C2: an Invalid result has isExpired=true only when the step that failed
\* was structural validation, on a numeric exp with exp + 1 < now.
C2_ExpiredOnlyOnExpiry ==
  (result.tag = "invalid" /\ result.isExpired)
    => /\ failed = "validate"
       /\ NumericExp(jwtObject.payload)
       /\ ExpOf(jwtObject.payload) + TicksPerSecond < clock

\* C3: when the crit list passes the shape and reserved-word checks and some
\* entry is not a key the signer put in the header or has no callable the
\* caller registered, the crit checks fail with 'not understood', no
\* handler is invoked and the call returns Invalid.
C3_UnknownCritHardFails ==
  (/\ Started("crit")
   /\ CritWellFormed(jwtObject.header)
   /\ SomeEntryUnknown(jwtObject.header, req.critHandlers))
    => /\ hs = <<>>
       /\ result.tag = "invalid"
       /\ result.message = "critical extension header parameters are not understood"

\* C4 as stated: the call has not completed while an invoked handler is
\* still pending, also when a handler failed.
C4_WaitsForAllAlways ==
  result.tag # "none" => \A i \in 1..Len(hs) : hs[i] # "pending"

\* C4 amended: the call returns Valid only after every handler has
\* completed successfully, and it completes while a handler is pending only
\* if some handler has failed.
C4_WaitsForAllUnlessFailed ==
  /\ result.tag = "valid" => \A i \in 1..Len(hs) : hs[i] = "fulfilled"
  /\ (result.tag # "none" /\ \E i \in 1..Len(hs) : hs[i] = "pending")
       => \E j \in 1..Len(hs) : hs[j] \in {"rejected", "threw"}
C4_Witness ==
  /\ result.tag = "valid"
  /\ Len(hs) >= 2
  /\ \A i \in 1..Len(hs) : Registered(req.critHandlers, CritOf(jwtObject.header).a[i].s)

\* C5 as stated: the signer's token for any header with a supported alg
\* (crit or not) and a payload with no or a future exp verifies as Valid
\* with the original header and payload.
C5_RoundTripAnyHeader ==
  (Done /\ RoundTripCase) => RoundTripHolds

\* C5 amended: the same, for headers without a crit key.
C5_RoundTripNoCrit ==
  (Done /\ RoundTripCase /\ ~HasOwn(req.jwt.h.val, "crit")) => RoundTripHolds
C5_Witness ==
  /\ Done /\ RoundTripCase /\ ~HasOwn(req.jwt.h.val, "crit")
  /\ NumericExp(req.jwt.p.val)
  /\ req.jwt.s # <<>>
  /\ result.tag = "valid"

\* C6: a token made by flipping one bit of the signature segment of a
\* token that validateJwt accepts is never returned as Valid.
C6_TamperedNeverValid ==
  (tamper.flip[1] # 0 /\ WouldAccept([req.jwt EXCEPT !.s = tamper.from]))
    => result.tag # "valid"

\* C7: with a valid header and a numeric exp, structural validation fails as
\* expired exactly when exp + 1 second < now; a correctly signed token whose
\* alg is allowed is then Invalid with isExpired=true, and otherwise Valid.
C7_ExpirationBoundary ==
  (/\ Started("validate")
   /\ TypeofProp(jwtObject.header, "alg") = "string"
   /\ NumericExp(jwtObject.payload))
    => /\ (failed = "validate" /\ result.tag = "invalid" /\ result.isExpired)
            <=> (ExpOf(jwtObject.payload) + TicksPerSecond < clock)
       /\ (/\ Done /\ SignerMade
           /\ ~HasOwn(jwtObject.header, "crit")
           /\ Allowed(req.algorithm, DeclaredAlg))
            => IF ExpOf(jwtObject.payload) + TicksPerSecond < clock
               THEN result.tag = "invalid" /\ result.isExpired
               ELSE result.tag = "valid"
C7_Witness ==
  /\ Done /\ SignerMade
  /\ NumericExp(jwtObject.payload)
  /\ clock > 0
  /\ ExpOf(jwtObject.payload) + TicksPerSecond = clock
  /\ result.tag = "valid"

\* C8 as stated: Valid only if the declared alg is the allowed algorithm or
\* in the allowed set; and a token whose declared alg is not allowed is
\* Invalid with isExpired=false.
C8_GateAlwaysNotExpired ==
  /\ result.tag = "valid" => Allowed(req.algorithm, DeclaredAlg)
  /\ (/\ Done /\ "decode" \in passed
      /\ TypeofProp(jwtObject.header, "alg") = "string"
      /\ ~Allowed(req.algorithm, DeclaredAlg))
       => result.tag = "invalid" /\ ~result.isExpired

\* C8 amended: Valid only if the declared alg is allowed; and once the
\* algorithm gate is reached with a declared alg that is not allowed, the
\* result is Invalid with isExpired=false, whatever the signature.
C8_GateWhenReached ==
  /\ result.tag = "valid" => Allowed(req.algorithm, DeclaredAlg)
  /\ (Started("gate") /\ ~Allowed(req.algorithm, DeclaredAlg))
       => /\ failed = "gate" /\ ~Started("sign")
          /\ result.tag = "invalid" /\ ~result.isExpired
C8_Witness ==
  /\ Done /\ SignerMade
  /\ Started("gate")
  /\ req.algorithm.isArray /\ Len(req.algorithm.list) = 2
  /\ ~Allowed(req.algorithm, DeclaredAlg)
  /\ result.tag = "invalid"

\* C9: the steps start in the order decode, structural validation, crit,
\* algorithm gate, signature; a step starts only after every earlier one
\* succeeded; a handler is invoked only after decoding, validation and all
\* the checks of the crit list succeeded; the signer is called only after
\* the crit dispatch succeeded and the alg passed the gate.
C9_StepOrder ==
  /\ Len(started) <= Len(StepOrder)
  /\ \A k \in 1..Len(started) :
       /\ started[k] = StepOrder[k]
       /\ k > 1 => StepOrder[k - 1] \in passed
  /\ (\E i \in 1..Len(hs) : Invoked(i))
       => /\ parseAndDecodeError(req.jwt) = NoErr
          /\ validateJwtObjectError(parseAndDecode(req.jwt), clock) = NoErr
          /\ CritWellFormed(jwtObject.header)
          /\ \A i \in 1..Len(hs) :
               ~NotUnderstood(jwtObject.header, req.critHandlers,
                              CritOf(jwtObject.header).a[i].s)
  /\ Started("sign")
       => /\ \A i \in 1..Len(hs) : hs[i] = "fulfilled"
          /\ Allowed(req.algorithm, DeclaredAlg)
          /\ validateJwtObjectError(parseAndDecode(req.jwt), clock) = NoErr
C9_Witness ==
  /\ Done
  /\ started = StepOrder
  /\ \E i \in 1..Len(hs) : Invoked(i)

\* C10 as stated: Valid only if the presented signature is the signing
\* primitive's output over the first two segments as presented.
C10_BindsPresentedSegments ==
  result.tag = "valid"
    => PresentedSignature = encrypt(DeclaredAlg, req.key, req.jwt.h, req.jwt.p)

\* C10 amended: Valid only if the presented signature is the signing
\* primitive's output over the signer's own serialization of the decoded
\* header and payload.
C10_BindsReserializedSegments ==
  result.tag = "valid"
    => PresentedSignature
         = encrypt(DeclaredAlg, req.key, EncodeJson(DecodeJson(req.jwt.h)),
                   EncodeJson(DecodeJson(req.jwt.p)))
C10_Witness ==
  /\ result.tag = "valid"
  /\ req.jwt.h.enc = "ws"
  /\ req.jwt.s # <<>>

====
